---- MODULE Spec2Model ----
(***************************************************************************)
(* Model of runtime/src/accounts_index_storage.rs: AccountsIndexStorage,   *)
(* the owner of the bucket map holder, of the in-memory shards and of the  *)
(* background flusher threads.                                             *)
(*                                                                         *)
(* Option<T> is modelled as a sequence: <<>> is None, <<x>> is Some(x).    *)
(* Vec indices are 0-based in the source and 1-based here: in_mem[i + 1]   *)
(* is the source's in_mem[i].                                              *)
(***************************************************************************)
EXTENDS Integers, Sequences, FiniteSets, TLC

\* ---------------------------------------------------------------- bounds
MaxBins == 2
MaxThreads == 2

Workers == 1..MaxThreads

\* ------------------------------------------------------------- constants
\* const DEFAULT_THREADS: usize = 1;
DEFAULT_THREADS == 1

VARIABLES
    bins,          \* argument `bins` of new()
    config,        \* argument `config` of new(): Option<AccountsIndexConfig>
    pcMain,        \* position of the owning thread (new / live / drop)
    exit,          \* Arc<AtomicBool> exit
    handles,       \* Option<Vec<JoinHandle<()>>>
    joinQueue,     \* the into_iter() of the taken handles, not yet joined
    joining,       \* worker whose join() is blocking (0: none)
    joined,        \* per worker: number of join() calls that returned
    notified,      \* number of notify_all() calls made by drop
    threads,       \* local `threads` of new()
    disk,          \* storage.disk.is_some()
    storageHeld,   \* the AccountsIndexStorage still owns its `storage` Arc
    storageRefs,   \* strong count of Arc<BucketMapHolder>
    in_mem,        \* Vec<Arc<InMemAccountsIndex>> of the owner: bin of shard
    shardRefs,     \* strong count of each Arc<InMemAccountsIndex>
    pc,            \* position of each background thread
    w_in_mem,      \* each thread's clone `in_mem_` of the shard array
    w_bins,        \* each thread's local `bins`
    w_flush,       \* each thread's local `flush`
    iter,          \* each thread's position in `for _ in 0..bins`
    wokenBy,       \* why the thread's last wait_timeout returned
    atBroadcast,   \* where each thread was when drop called notify_all
    lateTimeouts,  \* per thread: waits ended by timeout after that notify_all
    active_threads,\* storage.stats.active_threads
    flushed,       \* bins whose shard had flush() invoked at least once
    passSel,       \* per thread: next_bucket_to_flush calls in this pass
    passFlush,     \* per thread: flush() calls in this pass
    passReports    \* per thread: report_stats calls in this pass

vars == << bins, config, pcMain, exit, handles, joinQueue, joining, joined,
           notified, threads, disk, storageHeld, storageRefs, in_mem,
           shardRefs, pc, w_in_mem, w_bins, w_flush, iter, wokenBy,
           atBroadcast, lateTimeouts, active_threads, flushed, passSel,
           passFlush, passReports >>

mainVars == << pcMain, exit, handles, joinQueue, joining, joined, notified,
               threads, disk, storageHeld, in_mem >>
passVars == << iter, passSel, passFlush, passReports >>
histVars == << atBroadcast, lateTimeouts >>

\* ------------------------------------------------------------- Option<T>
None == <<>>
Some(x) == <<x>>
IsSome(o) == Len(o) = 1
Unwrap(o) == o[1]

\* The configurations new() is called with: no configuration, a
\* configuration without flush_threads, or one with flush_threads = n.
Configs ==
    {None} \cup { Some([flush_threads |-> ft]) :
                    ft \in {None} \cup { Some(n) : n \in 0..MaxThreads } }

\* Mutant: unwrap_or(0), no thread when flush_threads is not given.
ThreadsDefaultZero(cfg) ==
    LET ft == IF IsSome(cfg) THEN Unwrap(cfg).flush_threads ELSE None
    IN  IF IsSome(ft) THEN Unwrap(ft) ELSE 0

\* config.as_ref().and_then(|config| config.flush_threads)
\*       .unwrap_or(DEFAULT_THREADS)
Threads(cfg) ==
    LET ft == IF IsSome(cfg) THEN Unwrap(cfg).flush_threads ELSE None
    IN  IF IsSome(ft) THEN Unwrap(ft) ELSE DEFAULT_THREADS

\* (0..bins).map(|bin| Arc::new(InMemAccountsIndex::new(&storage, bin)))
InMem(b) == [ i \in 1..b |-> [bin |-> i - 1] ]

\* ------------------------------------------------- external collaborators
\* BucketMapHolder::next_bucket_to_flush: some bin index, owned by the
\* storage; no particular order is known.
NextBucketToFlush(b) == 0..(b - 1)

\* WaitableCondvar::notify_all: every thread blocked in wait_timeout
\* returns; the notification is not remembered for later waiters.
NotifyAll(p) == [ w \in Workers |-> IF p[w] = "waiting" THEN "woken" ELSE p[w] ]

\* Mutant: the increment adds two.
FetchAddTwo(x) == x + 2

\* Mutant: the decrement is lost.
FetchSubNone(x) == x

\* atomic fetch_add / fetch_sub on the counter
FetchAdd(x) == x + 1
FetchSub(x) == x - 1

\* -------------------------------------------------------------------- Init
Init ==
    /\ bins \in 0..MaxBins
    /\ config \in Configs
    /\ pcMain = "new"
    /\ exit = FALSE
    /\ handles = None
    /\ joinQueue = <<>>
    /\ joining = 0
    /\ joined = [ w \in Workers |-> 0 ]
    /\ notified = 0
    /\ threads = 0
    /\ disk = FALSE
    /\ storageHeld = FALSE
    /\ storageRefs = 0
    /\ in_mem = <<>>
    /\ shardRefs = <<>>
    /\ pc = [ w \in Workers |-> "unspawned" ]
    /\ w_in_mem = [ w \in Workers |-> <<>> ]
    /\ w_bins = [ w \in Workers |-> 0 ]
    /\ w_flush = [ w \in Workers |-> FALSE ]
    /\ iter = [ w \in Workers |-> 0 ]
    /\ wokenBy = [ w \in Workers |-> "none" ]
    /\ atBroadcast = [ w \in Workers |-> "na" ]
    /\ lateTimeouts = [ w \in Workers |-> 0 ]
    /\ active_threads = 0
    /\ flushed = {}
    /\ passSel = [ w \in Workers |-> 0 ]
    /\ passFlush = [ w \in Workers |-> 0 ]
    /\ passReports = [ w \in Workers |-> 0 ]

\* ------------------------------------------------------------------- new()
\* Lines 48-61: the storage, the shards, the thread count and the flag.
\* Whether the storage has a disk is decided inside BucketMapHolder::new.
New ==
    /\ pcMain = "new"
    /\ \E d \in BOOLEAN : disk' = d
    /\ storageHeld' = TRUE
    /\ storageRefs' = 1
    /\ in_mem' = InMem(bins)
    /\ shardRefs' = [ i \in 1..bins |-> 1 ]
    /\ threads' = Threads(config)
    /\ exit' = FALSE
    /\ handles' = Some(<<>>)
    /\ pcMain' = "spawn"
    /\ UNCHANGED << bins, config, joinQueue, joining, joined, notified, pc,
                    w_in_mem, w_bins, w_flush, wokenBy, atBroadcast,
                    active_threads, flushed >>
    /\ UNCHANGED passVars
    /\ UNCHANGED lateTimeouts

\* Lines 63-78: one iteration of (0..threads).map(..): clone the three
\* handles and spawn a thread that will run background().
Spawn ==
    /\ pcMain = "spawn"
    /\ Len(Unwrap(handles)) < threads
    /\ LET w == Len(Unwrap(handles)) + 1 IN
         /\ storageRefs' = storageRefs + 1
         /\ shardRefs' = [ i \in 1..Len(in_mem) |-> shardRefs[i] + 1 ]
         /\ w_in_mem' = [ w_in_mem EXCEPT ![w] = in_mem ]
         /\ pc' = [ pc EXCEPT ![w] = "spawned" ]
         /\ handles' = Some(Append(Unwrap(handles), w))
    /\ UNCHANGED << bins, config, pcMain, exit, joinQueue, joining, joined,
                    notified, threads, disk, storageHeld, in_mem, w_bins,
                    w_flush, wokenBy, atBroadcast, active_threads, flushed >>
    /\ UNCHANGED passVars
    /\ UNCHANGED lateTimeouts

\* Lines 81-86: new() returns the constructed value.
NewReturn ==
    /\ pcMain = "spawn"
    /\ Len(Unwrap(handles)) = threads
    /\ pcMain' = "live"
    /\ UNCHANGED << bins, config, exit, handles, joinQueue, joining, joined,
                    notified, threads, disk, storageHeld, storageRefs, in_mem,
                    shardRefs, pc, w_in_mem, w_bins, w_flush, wokenBy,
                    atBroadcast, active_threads, flushed >>
    /\ UNCHANGED passVars
    /\ UNCHANGED lateTimeouts

\* Where a thread is, as far as a notify_all is concerned: blocked in
\* wait_timeout, inside a scan pass (between the fetch_add of line 110 and
\* the fetch_sub of line 118), spawned and not yet waiting, or elsewhere.
MidScan(p) == p \in {"scan", "dec"}
Where(p) ==
    IF p = "waiting" THEN "waiting"
    ELSE IF MidScan(p) THEN "scanning"
    ELSE IF p = "spawned" THEN "spawned"
    ELSE "other"

\* ------------------------------------------------------------ background()
\* What a thread drops when background() returns: its clones of the
\* storage Arc and of the shard array (moved into the closure, lines 66-74).
DropClones(w) ==
    /\ storageRefs' = storageRefs - 1
    /\ shardRefs' = [ i \in 1..Len(shardRefs) |-> shardRefs[i] - 1 ]
    /\ w_in_mem' = [ w_in_mem EXCEPT ![w] = <<>> ]

\* Mutant: the flag is read before the first wait, and the thread returns
\* at once when it is set.
BackgroundStartChecksFirst(w) ==
    /\ pc[w] = "spawned"
    /\ w_bins' = [ w_bins EXCEPT ![w] = Len(w_in_mem[w]) ]
    /\ w_flush' = [ w_flush EXCEPT ![w] = disk ]
    /\ IF exit
         THEN /\ pc' = [ pc EXCEPT ![w] = "exited" ]
              /\ DropClones(w)
         ELSE /\ pc' = [ pc EXCEPT ![w] = "waiting" ]
              /\ UNCHANGED << storageRefs, shardRefs, w_in_mem >>
    /\ UNCHANGED << bins, config, wokenBy, atBroadcast, active_threads,
                    flushed >>
    /\ UNCHANGED mainVars
    /\ UNCHANGED passVars
    /\ UNCHANGED lateTimeouts

\* Mutant: `flush` is true whether or not the storage has a disk.
BackgroundStartAlwaysFlush(w) ==
    /\ pc[w] = "spawned"
    /\ w_bins' = [ w_bins EXCEPT ![w] = Len(w_in_mem[w]) ]
    /\ w_flush' = [ w_flush EXCEPT ![w] = TRUE ]
    /\ pc' = [ pc EXCEPT ![w] = "waiting" ]
    /\ UNCHANGED << bins, config, storageRefs, shardRefs, w_in_mem, wokenBy,
                    atBroadcast, active_threads, flushed >>
    /\ UNCHANGED mainVars
    /\ UNCHANGED passVars
    /\ UNCHANGED lateTimeouts

\* Lines 99-105: let bins = in_mem.len(); let flush = storage.disk.is_some();
\* then the loop is entered and the thread blocks in its first wait_timeout.
BackgroundStart(w) ==
    /\ pc[w] = "spawned"
    /\ w_bins' = [ w_bins EXCEPT ![w] = Len(w_in_mem[w]) ]
    /\ w_flush' = [ w_flush EXCEPT ![w] = disk ]
    /\ pc' = [ pc EXCEPT ![w] = "waiting" ]
    /\ UNCHANGED << bins, config, storageRefs, shardRefs, w_in_mem, wokenBy,
                    atBroadcast, active_threads, flushed >>
    /\ UNCHANGED mainVars
    /\ UNCHANGED passVars
    /\ UNCHANGED lateTimeouts

\* Mutant: after a timeout the flag is not read, the pass starts at once.
WaitTimeoutStartsPass(w) ==
    /\ pc[w] = "waiting"
    /\ pc' = [ pc EXCEPT ![w] = "inc" ]
    /\ wokenBy' = [ wokenBy EXCEPT ![w] = "timeout" ]
    /\ lateTimeouts' = [ lateTimeouts EXCEPT ![w] =
                           IF notified > 0 THEN @ + 1 ELSE @ ]
    /\ UNCHANGED << bins, config, storageRefs, shardRefs, w_in_mem, w_bins,
                    w_flush, atBroadcast, active_threads, flushed >>
    /\ UNCHANGED mainVars
    /\ UNCHANGED passVars

\* Mutant: an unbounded wait(), which no timeout ever ends.
WaitForever(w) ==
    /\ FALSE
    /\ pc[w] = "waiting"
    /\ UNCHANGED vars

\* Lines 103-105: wait_timeout(10000 ms) returns because the time is up.
WaitTimeout(w) ==
    /\ pc[w] = "waiting"
    /\ pc' = [ pc EXCEPT ![w] = "woken" ]
    /\ wokenBy' = [ wokenBy EXCEPT ![w] = "timeout" ]
    /\ lateTimeouts' = [ lateTimeouts EXCEPT ![w] =
                           IF notified > 0 THEN @ + 1 ELSE @ ]
    /\ UNCHANGED << bins, config, storageRefs, shardRefs, w_in_mem, w_bins,
                    w_flush, atBroadcast, active_threads, flushed >>
    /\ UNCHANGED mainVars
    /\ UNCHANGED passVars

\* Mutant: the flag is not looked at, the thread always goes on to scan.
CheckExitIgnored(w) ==
    /\ pc[w] = "woken"
    /\ pc' = [ pc EXCEPT ![w] = "inc" ]
    /\ UNCHANGED << bins, config, storageRefs, shardRefs, w_in_mem, w_bins,
                    w_flush, wokenBy, atBroadcast, active_threads, flushed >>
    /\ UNCHANGED mainVars
    /\ UNCHANGED passVars
    /\ UNCHANGED lateTimeouts

\* Lines 106-108: if exit.load() { break; }  After the break background()
\* returns and the thread ends, dropping what it owns.
CheckExit(w) ==
    /\ pc[w] = "woken"
    /\ IF exit
         THEN /\ pc' = [ pc EXCEPT ![w] = "exited" ]
              /\ DropClones(w)
         ELSE /\ pc' = [ pc EXCEPT ![w] = "inc" ]
              /\ UNCHANGED << storageRefs, shardRefs, w_in_mem >>
    /\ UNCHANGED << bins, config, w_bins, w_flush, wokenBy, atBroadcast,
                    active_threads, flushed >>
    /\ UNCHANGED mainVars
    /\ UNCHANGED passVars
    /\ UNCHANGED lateTimeouts

\* Mutant: the loop body runs once before the range is looked at.
BeginScanBodyFirst(w) ==
    /\ pc[w] = "inc"
    /\ active_threads' = FetchAdd(active_threads)
    /\ iter' = [ iter EXCEPT ![w] = 0 ]
    /\ passSel' = [ passSel EXCEPT ![w] = 0 ]
    /\ passFlush' = [ passFlush EXCEPT ![w] = 0 ]
    /\ passReports' = [ passReports EXCEPT ![w] = 0 ]
    /\ UNCHANGED wokenBy
    /\ pc' = [ pc EXCEPT ![w] = "scan" ]
    /\ UNCHANGED << bins, config, storageRefs, shardRefs, w_in_mem, w_bins,
                    w_flush, atBroadcast, flushed >>
    /\ UNCHANGED mainVars
    /\ UNCHANGED lateTimeouts

\* Line 110: active_threads.fetch_add(1), then the for loop is entered.
BeginScan(w) ==
    /\ pc[w] = "inc"
    /\ active_threads' = FetchAdd(active_threads)
    /\ iter' = [ iter EXCEPT ![w] = 0 ]
    /\ passSel' = [ passSel EXCEPT ![w] = 0 ]
    /\ passFlush' = [ passFlush EXCEPT ![w] = 0 ]
    /\ passReports' = [ passReports EXCEPT ![w] = 0 ]
    /\ UNCHANGED wokenBy
    /\ pc' = [ pc EXCEPT ![w] = IF w_bins[w] = 0 THEN "dec" ELSE "scan" ]
    /\ UNCHANGED << bins, config, storageRefs, shardRefs, w_in_mem, w_bins,
                    w_flush, atBroadcast, flushed >>
    /\ UNCHANGED mainVars
    /\ UNCHANGED lateTimeouts

\* Mutant: the loop also looks at the flag and is left early when it is set.
ReportAndAdvanceWatchesFlag(w) ==
    /\ passReports' = [ passReports EXCEPT ![w] = passReports[w] + 1 ]
    /\ iter' = [ iter EXCEPT ![w] = iter[w] + 1 ]
    /\ pc' = [ pc EXCEPT ![w] =
                IF exit \/ iter[w] + 1 = w_bins[w] THEN "dec" ELSE "scan" ]

\* Line 116 and the loop header of line 111: report_stats, next iteration.
ReportAndAdvance(w) ==
    /\ passReports' = [ passReports EXCEPT ![w] = passReports[w] + 1 ]
    /\ iter' = [ iter EXCEPT ![w] = iter[w] + 1 ]
    /\ pc' = [ pc EXCEPT ![w] = IF iter[w] + 1 = w_bins[w] THEN "dec" ELSE "scan" ]

\* Mutant: the shard of the loop index is flushed, not the one the policy
\* returned.
ScanFlushLoopIndex(w, index) ==
    /\ pc[w] = "scan"
    /\ w_flush[w]
    /\ index \in NextBucketToFlush(bins)
    /\ passSel' = [ passSel EXCEPT ![w] = passSel[w] + 1 ]
    /\ passFlush' = [ passFlush EXCEPT ![w] = passFlush[w] + 1 ]
    /\ flushed' = flushed \cup { w_in_mem[w][iter[w] + 1].bin }
    /\ ReportAndAdvance(w)
    /\ UNCHANGED << bins, config, storageRefs, shardRefs, w_in_mem, w_bins,
                    w_flush, wokenBy, atBroadcast, active_threads >>
    /\ UNCHANGED mainVars
    /\ UNCHANGED lateTimeouts

\* Mutant: the first shard is flushed whatever the policy returned.
ScanFlushFirstShard(w, index) ==
    /\ pc[w] = "scan"
    /\ w_flush[w]
    /\ index \in NextBucketToFlush(bins)
    /\ passSel' = [ passSel EXCEPT ![w] = passSel[w] + 1 ]
    /\ passFlush' = [ passFlush EXCEPT ![w] = passFlush[w] + 1 ]
    /\ flushed' = flushed \cup { w_in_mem[w][1].bin }
    /\ ReportAndAdvance(w)
    /\ UNCHANGED << bins, config, storageRefs, shardRefs, w_in_mem, w_bins,
                    w_flush, wokenBy, atBroadcast, active_threads >>
    /\ UNCHANGED mainVars
    /\ UNCHANGED lateTimeouts

\* Lines 112-116 with flush: the policy returns `index`, the shard
\* in_mem[index] is flushed, statistics are reported.
ScanFlush(w, index) ==
    /\ pc[w] = "scan"
    /\ w_flush[w]
    /\ index \in NextBucketToFlush(bins)
    /\ passSel' = [ passSel EXCEPT ![w] = passSel[w] + 1 ]
    /\ passFlush' = [ passFlush EXCEPT ![w] = passFlush[w] + 1 ]
    /\ flushed' = flushed \cup { w_in_mem[w][index + 1].bin }
    /\ ReportAndAdvance(w)
    /\ UNCHANGED << bins, config, storageRefs, shardRefs, w_in_mem, w_bins,
                    w_flush, wokenBy, atBroadcast, active_threads >>
    /\ UNCHANGED mainVars
    /\ UNCHANGED lateTimeouts

\* Lines 112-116 without flush: only statistics are reported.
ScanSkip(w) ==
    /\ pc[w] = "scan"
    /\ ~w_flush[w]
    /\ ReportAndAdvance(w)
    /\ UNCHANGED << bins, config, storageRefs, shardRefs, w_in_mem, w_bins,
                    w_flush, wokenBy, atBroadcast, active_threads, flushed,
                    passSel, passFlush >>
    /\ UNCHANGED mainVars
    /\ UNCHANGED lateTimeouts

\* Lines 111-117: one iteration of `for _ in 0..bins`.
ScanBin(w) ==
    \/ \E index \in 0..(MaxBins - 1) : ScanFlush(w, index)
    \/ ScanSkip(w)

\* Mutant: the flag is also read at the end of a pass, and the thread
\* leaves the loop there when it is set.
EndScanChecksFlag(w) ==
    /\ pc[w] = "dec"
    /\ active_threads' = FetchSub(active_threads)
    /\ iter' = [ iter EXCEPT ![w] = 0 ]
    /\ passSel' = [ passSel EXCEPT ![w] = 0 ]
    /\ passFlush' = [ passFlush EXCEPT ![w] = 0 ]
    /\ passReports' = [ passReports EXCEPT ![w] = 0 ]
    /\ wokenBy' = [ wokenBy EXCEPT ![w] = "none" ]
    /\ IF exit
         THEN /\ pc' = [ pc EXCEPT ![w] = "exited" ]
              /\ DropClones(w)
         ELSE /\ pc' = [ pc EXCEPT ![w] = "waiting" ]
              /\ UNCHANGED << storageRefs, shardRefs, w_in_mem >>
    /\ UNCHANGED << bins, config, w_bins, w_flush, atBroadcast, flushed >>
    /\ UNCHANGED mainVars
    /\ UNCHANGED lateTimeouts

\* Line 118 and lines 103-105: active_threads.fetch_sub(1); the pass is
\* over (its loop variable and its call counts start afresh), and at the top
\* of the loop the thread blocks in wait_timeout again.
EndScan(w) ==
    /\ pc[w] = "dec"
    /\ active_threads' = FetchSub(active_threads)
    /\ iter' = [ iter EXCEPT ![w] = 0 ]
    /\ passSel' = [ passSel EXCEPT ![w] = 0 ]
    /\ passFlush' = [ passFlush EXCEPT ![w] = 0 ]
    /\ passReports' = [ passReports EXCEPT ![w] = 0 ]
    /\ wokenBy' = [ wokenBy EXCEPT ![w] = "none" ]
    /\ pc' = [ pc EXCEPT ![w] = "waiting" ]
    /\ UNCHANGED << bins, config, storageRefs, shardRefs, w_in_mem, w_bins,
                    w_flush, atBroadcast, flushed >>
    /\ UNCHANGED mainVars
    /\ UNCHANGED lateTimeouts

\* Lines 113-116: a call made inside the pass (the indexing in_mem[index],
\* flush, next_bucket_to_flush, report_stats) panics.  The thread unwinds:
\* it never reaches the fetch_sub of line 118, its locals are gone and the
\* closure's clones are dropped; its JoinHandle will report Err.
WorkerPanic(w) ==
    /\ pc[w] = "scan"
    /\ pc' = [ pc EXCEPT ![w] = "panicked" ]
    /\ DropClones(w)
    /\ iter' = [ iter EXCEPT ![w] = 0 ]
    /\ passSel' = [ passSel EXCEPT ![w] = 0 ]
    /\ passFlush' = [ passFlush EXCEPT ![w] = 0 ]
    /\ passReports' = [ passReports EXCEPT ![w] = 0 ]
    /\ UNCHANGED << bins, config, w_bins, w_flush, wokenBy, atBroadcast,
                    active_threads, flushed >>
    /\ UNCHANGED mainVars
    /\ UNCHANGED lateTimeouts

\* One step of the background thread w.
Background(w) ==
    \/ BackgroundStart(w)
    \/ WaitTimeout(w)
    \/ CheckExit(w)
    \/ BeginScan(w)
    \/ ScanBin(w)
    \/ EndScan(w)

\* ------------------------------------------------------------------ drop()
workerVars == << storageRefs, shardRefs, w_in_mem, w_bins, w_flush,
                 active_threads, flushed >>

\* Mutant: the flag is stored as false.
DropStoreFalse ==
    /\ pcMain = "live"
    /\ exit' = FALSE
    /\ pcMain' = "notify"
    /\ UNCHANGED << bins, config, handles, joinQueue, joining, joined,
                    notified, threads, disk, storageHeld, in_mem, pc, wokenBy,
                    atBroadcast >>
    /\ UNCHANGED workerVars
    /\ UNCHANGED passVars
    /\ UNCHANGED lateTimeouts

\* Line 36: self.exit.store(true, Ordering::Relaxed);
DropStoreExit ==
    /\ pcMain = "live"
    /\ exit' = TRUE
    /\ pcMain' = "notify"
    /\ UNCHANGED << bins, config, handles, joinQueue, joining, joined,
                    notified, threads, disk, storageHeld, in_mem, pc, wokenBy,
                    atBroadcast >>
    /\ UNCHANGED workerVars
    /\ UNCHANGED passVars
    /\ UNCHANGED lateTimeouts

\* Mutant: drop goes on to the handles without calling notify_all.
DropNotifyAllSkipped ==
    /\ pcMain = "notify"
    /\ pcMain' = "take"
    /\ UNCHANGED << bins, config, exit, handles, joinQueue, joining, joined,
                    notified, threads, disk, storageHeld, in_mem, pc, wokenBy,
                    atBroadcast >>
    /\ UNCHANGED workerVars
    /\ UNCHANGED passVars
    /\ UNCHANGED lateTimeouts

\* Line 37: self.storage.wait_dirty_or_aged.notify_all();
DropNotifyAll ==
    /\ pcMain = "notify"
    /\ pc' = NotifyAll(pc)
    /\ wokenBy' = [ w \in Workers |->
                      IF pc[w] = "waiting" THEN "notify" ELSE wokenBy[w] ]
    /\ atBroadcast' = [ w \in Workers |-> Where(pc[w]) ]
    /\ UNCHANGED lateTimeouts
    /\ notified' = notified + 1
    /\ pcMain' = "take"
    /\ UNCHANGED << bins, config, exit, handles, joinQueue, joining, joined,
                    threads, disk, storageHeld, in_mem >>
    /\ UNCHANGED workerVars
    /\ UNCHANGED passVars

\* Mutant: the handles are taken and dropped, no thread is joined.
DropTakeHandlesNoJoin ==
    /\ pcMain = "take"
    /\ joinQueue' = <<>>
    /\ handles' = None
    /\ pcMain' = "join"
    /\ UNCHANGED << bins, config, exit, joining, joined, notified, threads,
                    disk, storageHeld, in_mem, pc, wokenBy, atBroadcast >>
    /\ UNCHANGED workerVars
    /\ UNCHANGED passVars
    /\ UNCHANGED lateTimeouts

\* Line 38: if let Some(handles) = self.handles.take()
DropTakeHandles ==
    /\ pcMain = "take"
    /\ joinQueue' = IF IsSome(handles) THEN Unwrap(handles) ELSE <<>>
    /\ handles' = None
    /\ pcMain' = "join"
    /\ UNCHANGED << bins, config, exit, joining, joined, notified, threads,
                    disk, storageHeld, in_mem, pc, wokenBy, atBroadcast >>
    /\ UNCHANGED workerVars
    /\ UNCHANGED passVars
    /\ UNCHANGED lateTimeouts

\* Mutant: the handles are joined from the back of the pool.
DropJoinBeginFromBack ==
    /\ pcMain = "join"
    /\ joining = 0
    /\ joinQueue # <<>>
    /\ joining' = joinQueue[Len(joinQueue)]
    /\ joinQueue' = SubSeq(joinQueue, 1, Len(joinQueue) - 1)
    /\ UNCHANGED << bins, config, pcMain, exit, handles, joined, notified,
                    threads, disk, storageHeld, in_mem, pc, wokenBy,
                    atBroadcast >>
    /\ UNCHANGED workerVars
    /\ UNCHANGED passVars
    /\ UNCHANGED lateTimeouts

\* Mutant: the handle that is joined stays in the pool.
DropJoinBeginNoPop ==
    /\ pcMain = "join"
    /\ joining = 0
    /\ joinQueue # <<>>
    /\ joining' = Head(joinQueue)
    /\ UNCHANGED << bins, config, pcMain, exit, handles, joinQueue, joined,
                    notified, threads, disk, storageHeld, in_mem, pc, wokenBy,
                    atBroadcast >>
    /\ UNCHANGED workerVars
    /\ UNCHANGED passVars
    /\ UNCHANGED lateTimeouts

\* Lines 39-41: for_each takes the next handle and calls join() on it.
DropJoinBegin ==
    /\ pcMain = "join"
    /\ joining = 0
    /\ joinQueue # <<>>
    /\ joining' = Head(joinQueue)
    /\ joinQueue' = Tail(joinQueue)
    /\ UNCHANGED << bins, config, pcMain, exit, handles, joined, notified,
                    threads, disk, storageHeld, in_mem, pc, wokenBy,
                    atBroadcast >>
    /\ UNCHANGED workerVars
    /\ UNCHANGED passVars
    /\ UNCHANGED lateTimeouts

\* JoinHandle::join blocks until the thread has ended.
JoinReady(w) == pc[w] = "exited"

\* Line 41: handle.join() returns Ok and unwrap() passes.
DropJoinReturn ==
    /\ pcMain = "join"
    /\ joining # 0
    /\ JoinReady(joining)
    /\ joined' = [ joined EXCEPT ![joining] = joined[joining] + 1 ]
    /\ joining' = 0
    /\ UNCHANGED << bins, config, pcMain, exit, handles, joinQueue, notified,
                    threads, disk, storageHeld, in_mem, pc, wokenBy,
                    atBroadcast >>
    /\ UNCHANGED workerVars
    /\ UNCHANGED passVars
    /\ UNCHANGED lateTimeouts

\* Mutant: the Err of join() is discarded and the loop goes on.
DropJoinPanicSwallowed ==
    /\ pcMain = "join"
    /\ joining # 0
    /\ pc[joining] = "panicked"
    /\ joined' = [ joined EXCEPT ![joining] = joined[joining] + 1 ]
    /\ joining' = 0
    /\ UNCHANGED << bins, config, pcMain, exit, handles, joinQueue, notified,
                    threads, disk, storageHeld, in_mem, pc, wokenBy,
                    atBroadcast >>
    /\ UNCHANGED workerVars
    /\ UNCHANGED passVars
    /\ UNCHANGED lateTimeouts

\* Line 41: handle.join() returns Err because the thread panicked, and
\* unwrap() panics.  drop() is left by unwinding: the iterator with the
\* handles not yet joined is dropped, which detaches their threads.
DropJoinPanic ==
    /\ pcMain = "join"
    /\ joining # 0
    /\ pc[joining] = "panicked"
    /\ joinQueue' = <<>>
    /\ pcMain' = "panicked"
    /\ UNCHANGED << bins, config, exit, handles, joining, joined, notified,
                    threads, disk, storageHeld, in_mem, pc, wokenBy,
                    atBroadcast >>
    /\ UNCHANGED workerVars
    /\ UNCHANGED passVars
    /\ UNCHANGED lateTimeouts

\* Line 43: drop() returns once the iterator is exhausted.
DropReturn ==
    /\ pcMain = "join"
    /\ joining = 0
    /\ joinQueue = <<>>
    /\ pcMain' = "release"
    /\ UNCHANGED << bins, config, exit, handles, joinQueue, joining, joined,
                    notified, threads, disk, storageHeld, in_mem, pc, wokenBy,
                    atBroadcast >>
    /\ UNCHANGED workerVars
    /\ UNCHANGED passVars
    /\ UNCHANGED lateTimeouts

\* After drop() the fields are dropped in declaration order (lines 18-26):
\* first the owner's `storage` Arc ...
ReleaseStorage ==
    /\ pcMain = "release"
    /\ storageHeld' = FALSE
    /\ storageRefs' = storageRefs - 1
    /\ pcMain' = "release_in_mem"
    /\ UNCHANGED << bins, config, exit, handles, joinQueue, joining, joined,
                    notified, threads, disk, in_mem, shardRefs, pc, w_in_mem,
                    w_bins, w_flush, wokenBy, atBroadcast, active_threads,
                    flushed >>
    /\ UNCHANGED passVars
    /\ UNCHANGED lateTimeouts

\* ... then the owner's `in_mem` vector of shard Arcs.
ReleaseInMem ==
    /\ pcMain = "release_in_mem"
    /\ in_mem' = <<>>
    /\ shardRefs' = [ i \in 1..Len(shardRefs) |-> shardRefs[i] - 1 ]
    /\ pcMain' = "done"
    /\ UNCHANGED << bins, config, exit, handles, joinQueue, joining, joined,
                    notified, threads, disk, storageHeld, storageRefs, pc,
                    w_in_mem, w_bins, w_flush, wokenBy, atBroadcast,
                    active_threads, flushed >>
    /\ UNCHANGED passVars
    /\ UNCHANGED lateTimeouts

\* The unwinding out of drop() still drops the fields of the value
\* (lines 18-26): the owner's `storage` Arc and its `in_mem` vector.
PanicUnwind ==
    /\ pcMain = "panicked"
    /\ storageHeld' = FALSE
    /\ storageRefs' = storageRefs - 1
    /\ in_mem' = <<>>
    /\ shardRefs' = [ i \in 1..Len(shardRefs) |-> shardRefs[i] - 1 ]
    /\ pcMain' = "unwound"
    /\ UNCHANGED << bins, config, exit, handles, joinQueue, joining, joined,
                    notified, threads, disk, pc, w_in_mem, w_bins, w_flush,
                    wokenBy, atBroadcast, active_threads, flushed >>
    /\ UNCHANGED passVars
    /\ UNCHANGED lateTimeouts

\* The teardown steps that follow the store of the flag.
Teardown ==
    \/ DropNotifyAll
    \/ DropTakeHandles
    \/ DropJoinBegin
    \/ DropJoinReturn
    \/ DropReturn
    \/ ReleaseStorage
    \/ ReleaseInMem

Construct == New \/ Spawn \/ NewReturn

\* ------------------------------------------------------------------- specs
Next ==
    \/ New
    \/ Spawn
    \/ NewReturn
    \/ \E w \in Workers : BackgroundStart(w)
    \/ \E w \in Workers : WaitTimeout(w)
    \/ \E w \in Workers : CheckExit(w)
    \/ \E w \in Workers : BeginScan(w)
    \/ \E w \in Workers : ScanBin(w)
    \/ \E w \in Workers : EndScan(w)
    \/ DropStoreExit
    \/ DropNotifyAll
    \/ DropTakeHandles
    \/ DropJoinBegin
    \/ DropJoinReturn
    \/ DropReturn
    \/ ReleaseStorage
    \/ ReleaseInMem

Spec == Init /\ [][Next]_vars

\* The same program when a call made inside a scan pass may panic.
NextFail ==
    \/ Next
    \/ \E w \in Workers : WorkerPanic(w)
    \/ DropJoinPanic
    \/ PanicUnwind

SpecFail == Init /\ [][NextFail]_vars

\* Fairness of the scheduling: every thread keeps running (a timed wait
\* returns, a flush returns), new() and a started drop() run to their end.
\* The owner is not obliged ever to drop the value.
Fairness ==
    /\ WF_vars(Construct)
    /\ WF_vars(Teardown)
    /\ \A w \in Workers : WF_vars(Background(w))

FairSpec == Init /\ [][Next]_vars /\ Fairness

\* Fairness of the selection policy: next_bucket_to_flush starves no bin.
PolicyFairness ==
    \A b \in 0..(MaxBins - 1) : SF_vars(\E w \in Workers : ScanFlush(w, b))

PolicyFairSpec == Init /\ [][Next]_vars /\ Fairness /\ PolicyFairness

TypeOK ==
    /\ bins \in 0..MaxBins
    /\ config \in Configs
    /\ exit \in BOOLEAN
    /\ threads \in 0..MaxThreads
    /\ active_threads \in Int
    /\ flushed \subseteq 0..(MaxBins - 1)
    /\ \A w \in Workers :
         /\ pc[w] \in {"unspawned", "spawned", "waiting", "woken",
                       "inc", "scan", "dec", "exited", "panicked"}
         /\ wokenBy[w] \in {"none", "timeout", "notify"}
         /\ iter[w] \in 0..MaxBins

\* ----------------------------------------------------------------- helpers
Spawned == { w \in Workers : pc[w] # "unspawned" }
Running == { w \in Workers : pc[w] \notin {"unspawned", "exited", "panicked"} }
Released == pcMain \in {"release_in_mem", "done"}
TornDown == pcMain = "done"

\* ------------------------------------------------------------------ claims

\* C1: when teardown has completed every worker is Exited, and the owner
\* gives up its storage handle and its shard array only when all workers
\* are Exited; while some worker is not Exited the storage and every shard
\* still have at least one reference.
C1_NoWorkerOutlivesSharedState ==
    /\ (pcMain \in {"release", "release_in_mem", "done"} => Running = {})
    /\ (pcMain # "new" /\ ~storageHeld => Running = {})
    /\ (Running # {} =>
          /\ storageHeld
          /\ storageRefs >= 1
          /\ Len(in_mem) = bins
          /\ \A i \in 1..Len(shardRefs) : shardRefs[i] >= 1)
    /\ \A w \in Running : Len(w_in_mem[w]) = bins

C1_Witness ==
    /\ TornDown
    /\ threads = 2
    /\ bins >= 1
    /\ \A w \in 1..2 : pc[w] = "exited"
    /\ storageRefs = 0
    /\ \A i \in 1..Len(shardRefs) : shardRefs[i] = 0

\* C2: teardown's steps are ordered: the flag is true when the broadcast
\* is made, the broadcast is made before any join begins, and the owner's
\* storage handle and shard array are released only when every handle has
\* been joined.
C2_TeardownOrder ==
    /\ (notified > 0 => exit)
    /\ (pcMain \in {"take", "join", "release", "release_in_mem", "done"}
          => notified = 1)
    /\ ((joining # 0 \/ \E w \in Workers : joined[w] > 0) => notified = 1)
    /\ ((pcMain # "new" /\ ~storageHeld) \/ Released \/ pcMain = "release" =>
          /\ joining = 0
          /\ joinQueue = <<>>
          /\ handles = None
          /\ \A w \in Spawned : joined[w] = 1)

C2_Witness ==
    /\ TornDown
    /\ threads = 2
    /\ \A w \in 1..2 : joined[w] = 1
    /\ \E w \in 1..2 : atBroadcast[w] = "scanning"

\* C3: once the flag is set, teardown runs to its end: every worker reaches
\* Exited and every join returns, wherever the workers were.
C3_TeardownTerminates ==
    exit ~> (/\ TornDown
             /\ \A w \in Spawned : pc[w] = "exited" /\ joined[w] = 1)

\* teardown completed although the broadcast woke nobody: one worker was
\* scanning and the other had not begun to wait
C3_Witness ==
    /\ TornDown
    /\ threads = 2
    /\ atBroadcast[1] = "scanning"
    /\ atBroadcast[2] = "spawned"
    /\ \A w \in 1..2 : joined[w] = 1

\* C4 as stated: a worker that is mid-scan when teardown broadcasts exits
\* after that pass without a further timed wait having to elapse.
C4_ExitsWithoutFurtherWait ==
    \A w \in Workers :
        atBroadcast[w] = "scanning" /\ pc[w] = "exited" => lateTimeouts[w] = 0

\* C4 amended: a worker that is mid-scan when teardown broadcasts finishes
\* that pass, waits once more, leaves that wait by its timeout (never by
\* the broadcast), then exits without starting another pass.
C4_ExitsAfterOneMoreTimeout ==
    \A w \in Workers :
        atBroadcast[w] = "scanning" =>
            /\ pc[w] \in {"scan", "dec", "waiting", "woken", "exited"}
            /\ lateTimeouts[w] <= 1
            /\ (pc[w] \in {"scan", "dec", "waiting"}
                  => lateTimeouts[w] = 0)
            /\ (pc[w] \in {"woken", "exited"}
                  => lateTimeouts[w] = 1 /\ wokenBy[w] = "timeout")

C4_Witness ==
    \E w \in Workers :
        /\ atBroadcast[w] = "scanning"
        /\ pc[w] = "exited"
        /\ lateTimeouts[w] = 1

\* C5: a worker blocked in its wait when teardown broadcasts is woken by
\* the broadcast, not by its timeout, reads the flag as true and exits
\* without starting another scan pass.
C5_WaiterWokenByBroadcast ==
    \A w \in Workers :
        atBroadcast[w] = "waiting" =>
            /\ wokenBy[w] = "notify"
            /\ lateTimeouts[w] = 0
            /\ pc[w] \in {"woken", "exited"}

C5_Witness ==
    \E w \in Workers :
        /\ atBroadcast[w] = "waiting"
        /\ wokenBy[w] = "notify"
        /\ pc[w] = "exited"

\* C6: the flag is false from construction until teardown, becomes true in
\* the first step of teardown and in no other step, and never becomes
\* false again.
C6_FlagMonotonic ==
    [][ /\ (exit => exit')
        /\ (exit' # exit => pcMain = "live" /\ pcMain' = "notify")
        /\ (pcMain' \in {"new", "spawn", "live"} => ~exit')
        /\ (pcMain' \notin {"new", "spawn", "live"} => exit') ]_vars

C6_Witness ==
    /\ exit
    /\ \E w \in Workers : pc[w] = "exited"
    /\ \E w \in Workers : MidScan(pc[w])

\* C7: the active-thread counter is in [0, N], is 0 whenever no worker is
\* mid-scan and is 0 when teardown has completed.
C7_ActiveThreadsRange ==
    /\ active_threads >= 0
    /\ active_threads <= threads
    /\ ((\A w \in Workers : ~MidScan(pc[w])) => active_threads = 0)
    /\ (TornDown => active_threads = 0)

C7_Witness ==
    /\ active_threads = 2
    /\ threads = 2
    /\ exit

\* C8: without a disk no worker ever asks for the next bucket and no shard
\* is ever flushed, while every pass still visits all B bins and reports
\* statistics once per bin.
C8_NoFlushWithoutDisk ==
    (pcMain # "new" /\ ~disk) =>
        /\ flushed = {}
        /\ \A w \in Workers :
             /\ passSel[w] = 0
             /\ passFlush[w] = 0
             /\ (pc[w] = "scan" => passReports[w] = iter[w] /\ iter[w] < bins)
             /\ (pc[w] = "dec" => passReports[w] = bins)

C8_Witness ==
    /\ pcMain # "new"
    /\ ~disk
    /\ bins >= 2
    /\ threads = 2
    /\ \A w \in 1..2 : pc[w] = "dec" /\ passReports[w] = bins

\* C9: with a disk, at least one worker and no teardown, every bin is
\* eventually flushed.
C9_EveryBinEventuallyFlushed ==
    \A b \in 0..(MaxBins - 1) :
        ([]~exit /\ <>(disk /\ threads >= 1 /\ b < bins)) => <>(b \in flushed)

C9_Witness ==
    /\ disk
    /\ ~exit
    /\ bins >= 2
    /\ flushed = 0..(bins - 1)

\* C10: construction makes exactly B shards, shard i for bin i, and spawns
\* exactly N threads, N being flush_threads or 1 when there is no
\* configuration or no flush_threads; every thread holds the whole shard
\* array; B and N never change.
ConfiguredThreads ==
    IF config = None THEN 1
    ELSE IF config[1].flush_threads = None THEN 1
    ELSE config[1].flush_threads[1]

C10_Construction ==
    [][ /\ bins' = bins
        /\ config' = config
        /\ (pcMain # "new" => threads' = threads /\ threads = ConfiguredThreads)
        /\ (pcMain \in {"live", "notify", "take", "join", "release"} =>
              /\ Len(in_mem) = bins
              /\ \A i \in 0..(bins - 1) : in_mem[i + 1].bin = i
              /\ Cardinality(Spawned) = ConfiguredThreads
              /\ Spawned = 1..ConfiguredThreads
              /\ \A w \in Running :
                   /\ w_in_mem[w] = in_mem
                   /\ (pc[w] # "spawned" => w_bins[w] = bins)) ]_vars

C10_Witness ==
    /\ pcMain = "live"
    /\ config = None
    /\ bins >= 2
    /\ Len(in_mem) = bins
    /\ Spawned = {1}


\* the handles of the pool, in the order new() spawned the threads
Pool == [ i \in 1..threads |-> i ]
\* how many times worker w occurs among the handles still to be joined
InQueue(w) == Cardinality({ i \in 1..Len(joinQueue) : joinQueue[i] = w })

\* C11: every handle is joined at most once, no join begins before
\* teardown has taken the handles, teardown leaves the pool empty, and
\* when teardown has completed every handle has been joined exactly once.
C11_JoinedExactlyOnce ==
    /\ \A w \in Workers : joined[w] <= 1
    /\ \A w \in Workers \ Spawned : joined[w] = 0 /\ joining # w
    /\ (pcMain \in {"new", "spawn", "live", "notify", "take"} =>
          /\ joining = 0
          /\ joinQueue = <<>>
          /\ \A w \in Workers : joined[w] = 0)
    /\ (pcMain \in {"live", "notify", "take"} => handles = Some(Pool))
    /\ (pcMain \in {"join", "release", "release_in_mem", "done"} =>
          /\ handles = None
          /\ \A w \in Spawned :
               InQueue(w) + (IF joining = w THEN 1 ELSE 0) + joined[w] = 1)
    /\ (TornDown => \A w \in Spawned : joined[w] = 1)

C11_Witness ==
    /\ pcMain = "join"
    /\ threads = 2
    /\ handles = None
    /\ joined[1] = 1
    /\ joining = 2
    /\ joinQueue = <<>>


\* The worker states of the design: Waiting (from the spawn to the read of
\* the flag after a wake), Scanning (from there to the end of the pass),
\* Exited.
St(p) ==
    IF p = "unspawned" THEN "Unspawned"
    ELSE IF p \in {"spawned", "waiting", "woken"} THEN "Waiting"
    ELSE IF p \in {"inc", "scan", "dec"} THEN "Scanning"
    ELSE "Exited"

\* C12: a worker starts in Waiting; it leaves Waiting only by reading the
\* flag after a wake, to Exited when it reads true and to Scanning when it
\* reads false; it leaves Scanning only to Waiting and only when all B bins
\* of the pass were processed; Exited is terminal.
C12_WorkerTransitions ==
    [][ \A w \in Workers :
          /\ (St(pc[w]) # St(pc'[w]) =>
                \/ St(pc[w]) = "Unspawned" /\ St(pc'[w]) = "Waiting"
                \/ /\ St(pc[w]) = "Waiting" /\ St(pc'[w]) = "Exited"
                   /\ pc[w] = "woken" /\ exit
                \/ /\ St(pc[w]) = "Waiting" /\ St(pc'[w]) = "Scanning"
                   /\ pc[w] = "woken" /\ ~exit
                \/ /\ St(pc[w]) = "Scanning" /\ St(pc'[w]) = "Waiting"
                   /\ pc[w] = "dec"
                   /\ iter[w] = bins /\ passReports[w] = bins)
          /\ (pc[w] = "woken" /\ pc'[w] # "woken" =>
                pc'[w] = IF exit THEN "exited" ELSE "inc")
          /\ (pc[w] = "dec" => iter[w] = bins /\ passReports[w] = bins) ]_vars

\* teardown is blocked in the join of a worker that was scanning at the
\* broadcast and has now completed its pass over all bins
C12_Witness ==
    \E w \in Workers :
        /\ joining = w
        /\ atBroadcast[w] = "scanning"
        /\ bins >= 2
        /\ pc[w] = "dec"
        /\ passReports[w] = bins


\* C13: with a disk, each iteration of a pass asks the policy once, flushes
\* the shard of the index the policy returned and reports statistics once;
\* a complete pass has made exactly B selections, B flushes and B reports.
C13_OnePassWithDisk ==
    [][ \A w \in Workers :
          /\ (w_flush[w] /\ pc[w] = "scan" =>
                /\ iter[w] < bins
                /\ passSel[w] = iter[w]
                /\ passFlush[w] = iter[w]
                /\ passReports[w] = iter[w])
          /\ (w_flush[w] /\ pc[w] = "dec" =>
                /\ passSel[w] = bins
                /\ passFlush[w] = bins
                /\ passReports[w] = bins)
          /\ \A index \in 0..(MaxBins - 1) :
                ScanFlush(w, index) =>
                    /\ index < bins
                    /\ flushed' = flushed \cup {index}
                    /\ passSel'[w] = passSel[w] + 1
                    /\ passFlush'[w] = passFlush[w] + 1
                    /\ passReports'[w] = passReports[w] + 1
          /\ (w_flush[w] /\ pc[w] = "scan" /\ pc'[w] # "panicked"
                /\ << pc'[w], iter'[w] >> # << pc[w], iter[w] >> =>
                  \E index \in 0..(bins - 1) : ScanFlush(w, index)) ]_vars

\* a single worker has completed a pass over two bins in which the policy
\* named the last bin both times
C13_Witness ==
    /\ disk
    /\ threads = 1
    /\ bins = 2
    /\ pc[1] = "dec"
    /\ passSel[1] = 2
    /\ passFlush[1] = 2
    /\ passReports[1] = 2
    /\ flushed = {1}


\* C14: with no bins a pass has zero iterations (no selection, no flush, no
\* report, disk or not) while the thread still waits, wakes and reads the
\* flag each cycle; nothing fails, and a teardown that completes has every
\* thread exited and joined.
C14_NoBins ==
    [][ bins = 0 =>
          /\ flushed = {}
          /\ pcMain \notin {"panicked", "unwound"}
          /\ (TornDown => \A w \in 1..threads :
                             pc[w] = "exited" /\ joined[w] = 1)
          /\ \A w \in Workers :
                /\ pc[w] \notin {"scan", "panicked"}
                /\ iter[w] = 0
                /\ passSel[w] = 0
                /\ passFlush[w] = 0
                /\ passReports[w] = 0
                /\ (pc'[w] # pc[w] =>
                      pc'[w] = CASE pc[w] = "unspawned" -> "spawned"
                                 [] pc[w] = "spawned" -> "waiting"
                                 [] pc[w] = "waiting" -> "woken"
                                 [] pc[w] = "woken" ->
                                      IF exit THEN "exited" ELSE "inc"
                                 [] pc[w] = "inc" -> "dec"
                                 [] pc[w] = "dec" -> "waiting"
                                 [] OTHER -> pc[w]) ]_vars

\* with a disk and no bins, two threads that had not begun to wait when the
\* value was dropped have each timed out, read the flag and exited
C14_Witness ==
    /\ bins = 0
    /\ disk
    /\ threads = 2
    /\ TornDown
    /\ \A w \in Workers :
          /\ atBroadcast[w] = "spawned"
          /\ lateTimeouts[w] = 1
          /\ pc[w] = "exited"
          /\ joined[w] = 1


\* drop() has been left by a panic.
Failed == pcMain \in {"panicked", "unwound"}

\* C15: when a thread has panicked, the join of that thread makes drop()
\* panic: drop() never returns normally while some thread has panicked, a
\* join of a panicked thread is never counted as a join, and once drop()
\* has panicked it joins nothing more and never reaches its normal end.
C15_JoinFailureIsFatal ==
    [][ /\ (pcMain \in {"release", "release_in_mem", "done"} =>
              \A w \in Workers : pc[w] # "panicked")
        /\ \A w \in Workers : pc[w] = "panicked" => joined[w] = 0
        /\ (pcMain = "join" /\ joining # 0 /\ pc[joining] = "panicked" =>
              /\ joined' = joined
              /\ joining' = joining
              /\ pcMain' \in {"join", "panicked"})
        /\ (Failed =>
              /\ joining # 0
              /\ pc[joining] = "panicked"
              /\ joinQueue = <<>>
              /\ joined' = joined
              /\ joining' = joining
              /\ pcMain' \in {"panicked", "unwound"}) ]_vars

\* thread 1 panicked inside a pass, its join made drop() panic, and
\* thread 2 was never joined and is still in its loop
C15_Witness ==
    /\ pcMain = "unwound"
    /\ threads = 2
    /\ joining = 1
    /\ pc[1] = "panicked"
    /\ pc[2] = "waiting"
    /\ joined = [ w \in Workers |-> 0 ]


\* The flush() calls thread w can still make without reading the flag
\* again: those of the pass it has committed to (flag read, line 106) or is
\* inside of.
FlushesLeft(w) ==
    IF ~w_flush[w] THEN 0
    ELSE IF pc[w] = "inc" THEN w_bins[w]
    ELSE IF pc[w] = "scan" THEN w_bins[w] - iter[w]
    ELSE 0

\* C16: once the flag is set no thread starts a new pass: a read of the
\* flag leads to the exit of the thread, and the only flush() calls are
\* those that finish a pass in flight when the flag was set, each taken
\* from a budget of at most B per thread that never grows.
C16_NoNewPassAfterExit ==
    [][ exit =>
          \A w \in Workers :
            /\ (pc[w] = "woken" /\ pc'[w] # "woken" => pc'[w] = "exited")
            /\ (pc'[w] = "inc" => pc[w] = "inc")
            /\ (pc'[w] \in {"scan", "dec"} => pc[w] \in {"inc", "scan", "dec"})
            /\ FlushesLeft(w) <= bins
            /\ FlushesLeft(w)' <= FlushesLeft(w)
            /\ (passFlush'[w] # passFlush[w] /\ pc[w] = "scan"
                  /\ pc'[w] # "panicked" =>
                    /\ passFlush'[w] = passFlush[w] + 1
                    /\ FlushesLeft(w) >= 1
                    /\ FlushesLeft(w)' = FlushesLeft(w) - 1)
            /\ (flushed' # flushed =>
                  \E v \in Workers : pc[v] = "scan" /\ FlushesLeft(v) >= 1) ]_vars

\* a thread had read the flag just before it was set, and has since made
\* the B = 2 flushes of its pass, all of them after the flag was set
C16_Witness ==
    \E w \in Workers :
        /\ exit
        /\ notified = 1
        /\ atBroadcast[w] = "other"
        /\ bins = 2
        /\ pc[w] = "dec"
        /\ passFlush[w] = 2


\* The threads between the fetch_add of line 110 and the fetch_sub of
\* line 118, and the threads that panicked between the two.
InPass == { w \in Workers : MidScan(pc[w]) }
LostInPass == { w \in Workers : pc[w] = "panicked" }

\* C17: the counter is the number of threads that have made the increment
\* of their current pass and not yet its decrement, as long as no thread
\* has panicked inside a pass (each such thread leaves its 1 behind); a
\* thread enters a pass by adding 1, and leaves it normally by subtracting
\* 1 and then waiting.
C17_CounterCountsPasses ==
    [][ /\ active_threads = Cardinality(InPass) + Cardinality(LostInPass)
        /\ (LostInPass = {} => active_threads = Cardinality(InPass))
        /\ \A w \in Workers :
              /\ (~MidScan(pc[w]) /\ MidScan(pc'[w]) =>
                    pc[w] = "inc" /\ active_threads' = active_threads + 1)
              /\ (MidScan(pc[w]) /\ ~MidScan(pc'[w]) /\ pc'[w] # "panicked" =>
                    /\ pc[w] = "dec"
                    /\ pc'[w] = "waiting"
                    /\ active_threads' = active_threads - 1)
              /\ (MidScan(pc[w]) = MidScan(pc'[w]) /\ pc'[w] # "panicked"
                    /\ pc'[w] # pc[w] =>
                    active_threads' = active_threads) ]_vars

\* thread 1 was in a pass when the value was dropped and has since left it,
\* waited and exited, while thread 2 is inside a pass: the counter is 1
C17_Witness ==
    /\ threads = 2
    /\ LostInPass = {}
    /\ atBroadcast[1] = "scanning"
    /\ pc[1] = "exited"
    /\ pc[2] = "scan"
    /\ iter[2] = 1
    /\ active_threads = 1


\* The threads the notify_all of drop() found neither waiting nor past
\* their last read of the flag: inside a pass, or spawned and not yet in
\* their first wait.
MissedBroadcast == { w \in Workers : atBroadcast[w] \in {"scanning", "spawned"} }

\* C18: drop() calls notify_all exactly once and the notification is not
\* kept for later waiters: a thread that was inside a pass or had not yet
\* begun its first wait is left where it is by the call, goes on to
\* wait_timeout without reading the flag, is never woken by the
\* notification, and has exited only after that wait timed out.
C18_BroadcastNotLatched ==
    [][ /\ notified = (IF pcMain \in {"new", "spawn", "live", "notify"}
                         THEN 0 ELSE 1)
        /\ (notified' # notified =>
              /\ notified' = notified + 1
              /\ \A w \in Workers :
                    pc[w] # "waiting" => pc'[w] = pc[w] /\ wokenBy'[w] = wokenBy[w])
        /\ \A w \in MissedBroadcast :
              /\ wokenBy[w] # "notify"
              /\ (pc[w] \in {"spawned", "dec"} /\ pc'[w] # pc[w] =>
                    pc'[w] = "waiting" /\ lateTimeouts[w] = 0)
              /\ (pc[w] = "waiting" /\ pc'[w] # pc[w] =>
                    /\ pc'[w] = "woken"
                    /\ wokenBy'[w] = "timeout"
                    /\ lateTimeouts'[w] = 1)
              /\ (pc[w] = "exited" =>
                    lateTimeouts[w] = 1 /\ wokenBy[w] = "timeout") ]_vars

\* the notification found thread 1 inside a pass and thread 2 before its
\* first wait; each has since waited, timed out, read the flag and exited
C18_Witness ==
    /\ notified = 1
    /\ threads = 2
    /\ atBroadcast[1] = "scanning"
    /\ atBroadcast[2] = "spawned"
    /\ \A w \in Workers :
          pc[w] = "exited" /\ lateTimeouts[w] = 1 /\ wokenBy[w] = "timeout"


\* C19: drop() joins the threads one at a time in the order of the pool:
\* the join of thread k begins when no join is pending and exactly the
\* threads before k have been joined, each of them having exited; when the
\* join of k finds that k panicked, drop() panics there with the threads
\* before k joined and neither k nor any thread after it joined, then or
\* later.
C19_JoinsInPoolOrder ==
    [][ /\ \A w \in 1..threads :
              joined[w] = 1 => pc[w] = "exited" /\ \A v \in 1..(w - 1) : joined[v] = 1
        /\ (joining' # joining =>
              \/ /\ joining = 0
                 /\ joining' \in 1..threads
                 /\ \A v \in 1..threads :
                       joined[v] = (IF v < joining' THEN 1 ELSE 0)
                 /\ joined' = joined
              \/ /\ joining \in 1..threads
                 /\ joining' = 0
                 /\ pc[joining] = "exited"
                 /\ joined' = [ joined EXCEPT ![joining] = 1 ])
        /\ (joined' # joined => joining # 0 /\ joining' = 0)
        /\ (pcMain = "join" /\ joining # 0 =>
              joinQueue = [ i \in 1..(threads - joining) |-> joining + i ])
        /\ (pcMain = "join" /\ pcMain' = "panicked" =>
              joining # 0 /\ pc[joining] = "panicked")
        /\ (Failed =>
              \A v \in 1..threads :
                /\ joined[v] = (IF v < joining THEN 1 ELSE 0)
                /\ joined'[v] = joined[v]) ]_vars

\* the join of thread 1 found it panicked and drop() panicked; thread 2
\* has exited since and was never joined
C19_Witness ==
    /\ pcMain = "panicked"
    /\ threads = 2
    /\ joining = 1
    /\ pc[1] = "panicked"
    /\ pc[2] = "exited"
    /\ joined[2] = 0

====
